---- MODULE Spec2Model ----
(***************************************************************************)
(* Seat inventory and reservation lifecycle of the movie reservation       *)
(* backend: the Showtime and Reservation models (src/models/Reservation.js)*)
(* the reservation controller (src/controllers/reportController.js,       *)
(* second half) and the showtime controller                                *)
(* (src/controllers/showtimeController.js).                                *)
(*                                                                         *)
(* Request handlers are asynchronous: a handler runs without interruption  *)
(* between two awaits, and the handlers of other requests run while it     *)
(* waits for the database.  Each action below is one database round trip   *)
(* of one handler together with the synchronous code that follows or       *)
(* precedes it.                                                            *)
(*                                                                         *)
(* Time is counted in units of 30 minutes.  Money is counted in cents.     *)
(*                                                                         *)
(* document.save() writes the modified paths only (Mongoose):              *)
(*   - reserveSeats sets availableSeats.i.isAvailable and pushes onto      *)
(*     reservedSeats: the update is $set + $push, it increments the        *)
(*     version key and carries no version condition;                       *)
(*   - releaseSeats assigns the whole reservedSeats array: the update      *)
(*     carries the condition that the version key is the loaded one,       *)
(*     fails with a VersionError otherwise, and increments it;             *)
(*   - a reservation's scalar paths are written without any condition.     *)
(* The claim time stamp reservedAt is left out of the claim records.       *)
(***************************************************************************)
EXTENDS Integers, Sequences, FiniteSets, TLC

None == "none"
\* a Date or Number path that has no value
Unset == 0 - 1

\* ---------------------------------------------------------------- bounds
MaxReservations == 2
MaxVersion == 3
Slack == 1
StartTime == 60
MaxShowtimes == 1

\* ------------------------------------------------------ program constants
ThirtyMinutes == 1
TwoHours == 4
TwentyFourHours == 48

\* the base price of the screenings, in cents
BasePrice == 1000

Procs == {"p1", "p2"}
Users == {"u1", "u2"}
Admin == "admin"
Actors == Users \cup {Admin}
ShowtimeId == "s1"

Role(actor) == IF actor = Admin THEN "admin" ELSE "user"

\* the user whose requests a handler slot serves
Session(p) == IF p = "p1" THEN "u1" ELSE "u2"

Key(row, number) == [row |-> row, number |-> number]

\* request bodies accepted by validateReservation (1..10 seats, row a capital
\* letter, number 1..50): one seat, two seats, the same seat twice, and an
\* unknown seat after a known one
SeatRequests ==
  { <<Key("A", 1)>>, <<Key("A", 2)>>, <<Key("A", 1), Key("A", 2)>>,
    <<Key("A", 1), Key("A", 1)>>, <<Key("A", 1), Key("B", 1)>> }

\* paymentDetails accepted by validateReservation: transactionId is optional
PaymentInputs ==
  { [method |-> "cash", transactionId |-> FALSE],
    [method |-> "credit_card", transactionId |-> FALSE] }

validStatuses == {"pending", "confirmed", "cancelled", "completed", "no_show"}
StatusInputs == validStatuses \cup {"bogus"}

\* the instants at which the clock is observed: around every threshold
Thresholds == {TwentyFourHours, TwoHours, 0, 0 - ThirtyMinutes}
Instants == {StartTime - t + d : t \in Thresholds, d \in (0 - Slack)..Slack}
FirstInstant == CHOOSE i \in Instants : \A j \in Instants : i <= j

VARIABLES now, showtime, schedule, reservations, calls, response

\* the position of every handler is listed before the handlers' records
vars == <<now, showtime, schedule, reservations, response,
          [p \in Procs |-> calls[p].pc], calls>>

\* ------------------------------------------------------------ Showtime
\* Array.prototype.find with the seat predicate: the first matching index, 0 if none
FindSeat(availableSeats, key, mustBeAvailable) ==
  LET hits == {i \in DOMAIN availableSeats :
                 /\ availableSeats[i].row = key.row
                 /\ availableSeats[i].number = key.number
                 /\ (mustBeAvailable => availableSeats[i].isAvailable)}
  IN IF hits = {} THEN 0 ELSE CHOOSE i \in hits : \A j \in hits : i <= j

\* the loop of reserveSeats finding the seat by its key alone
RECURSIVE reserveLoopByKey(_, _, _, _, _)
reserveLoopByKey(doc, seats, userId, k, reservedSeats) ==
  IF k > Len(seats)
  THEN [threw |-> FALSE,
        doc |-> [doc EXCEPT !.reservedSeats = @ \o reservedSeats],
        reserved |-> reservedSeats]
  ELSE LET i == FindSeat(doc.availableSeats, seats[k], FALSE)
       IN IF i = 0
          THEN [threw |-> TRUE, doc |-> doc, reserved |-> reservedSeats]
          ELSE reserveLoopByKey([doc EXCEPT !.availableSeats[i].isAvailable = FALSE],
                                seats, userId, k + 1,
                                Append(reservedSeats,
                                       [row |-> doc.availableSeats[i].row,
                                        number |-> doc.availableSeats[i].number,
                                        reservedBy |-> userId]))

\* the loop of showtimeSchema.methods.reserveSeats from seat k on
RECURSIVE reserveLoop(_, _, _, _, _)
reserveLoop(doc, seats, userId, k, reservedSeats) ==
  IF k > Len(seats)
  THEN [threw |-> FALSE,
        doc |-> [doc EXCEPT !.reservedSeats = @ \o reservedSeats],
        reserved |-> reservedSeats]
  ELSE LET i == FindSeat(doc.availableSeats, seats[k], TRUE)
       IN IF i = 0
          THEN [threw |-> TRUE, doc |-> doc, reserved |-> reservedSeats]
          ELSE reserveLoop([doc EXCEPT !.availableSeats[i].isAvailable = FALSE],
                           seats, userId, k + 1,
                           Append(reservedSeats,
                                  [row |-> doc.availableSeats[i].row,
                                   number |-> doc.availableSeats[i].number,
                                   reservedBy |-> userId]))

\* reserveSeats taking the reserved seats out of the list of available seats
reserveSeatsRemoving(doc, seats, userId) ==
  LET found(k) == FindSeat(doc.availableSeats, seats[k], TRUE)
      claims == [k \in DOMAIN seats |->
                   [row |-> seats[k].row, number |-> seats[k].number,
                    reservedBy |-> userId]]
      taken(a) == \E k \in DOMAIN seats :
                    a.row = seats[k].row /\ a.number = seats[k].number
  IN IF \E k \in DOMAIN seats : found(k) = 0
     THEN [threw |-> TRUE, doc |-> doc, reserved |-> <<>>]
     ELSE [threw |-> FALSE,
           doc |-> [doc EXCEPT !.availableSeats = SelectSeq(@, LAMBDA a : ~taken(a)),
                               !.reservedSeats = @ \o claims],
           reserved |-> claims]

\* showtimeSchema.methods.reserveSeats: the document as mutated in memory,
\* whether it threw, and the claim records it built
reserveSeats(doc, seats, userId) == reserveLoop(doc, seats, userId, 1, <<>>)

RECURSIVE releaseLoop(_, _, _)
releaseLoop(doc, seats, k) ==
  IF k > Len(seats) THEN doc
  ELSE LET keep(c) == ~(c.row = seats[k].row /\ c.number = seats[k].number)
           i == FindSeat(doc.availableSeats, seats[k], FALSE)
           filtered == [doc EXCEPT !.reservedSeats = SelectSeq(@, keep)]
       IN releaseLoop(IF i = 0 THEN filtered
                      ELSE [filtered EXCEPT !.availableSeats[i].isAvailable = TRUE],
                      seats, k + 1)

\* releaseSeats inverting the flag of every named seat
releaseSeatsToggling(doc, seats) ==
  LET named(a) == \E k \in DOMAIN seats :
                    a.row = seats[k].row /\ a.number = seats[k].number
  IN [doc EXCEPT
        !.availableSeats = [i \in DOMAIN @ |->
           IF named(@[i]) THEN [@[i] EXCEPT !.isAvailable = ~@] ELSE @[i]],
        !.reservedSeats = SelectSeq(@, LAMBDA c : ~named(c))]

\* showtimeSchema.methods.releaseSeats
releaseSeats(doc, seats) == releaseLoop(doc, seats, 1)

\* the seat flags that differ between the loaded and the mutated document
ModifiedFlags(loaded, local) ==
  {i \in DOMAIN loaded.availableSeats :
     local.availableSeats[i].isAvailable # loaded.availableSeats[i].isAvailable}

\* showtimeDoc.save() after reserveSeats: $set of the modified flags, $push of
\* the new claim records, $inc of the version key
SaveReserved(stored, loaded, local, pushed) ==
  [stored EXCEPT
     !.availableSeats = [i \in DOMAIN @ |->
        IF i \in ModifiedFlags(loaded, local)
        THEN [@[i] EXCEPT !.isAvailable = local.availableSeats[i].isAvailable]
        ELSE @[i]],
     !.reservedSeats = @ \o pushed,
     !.version = @ + 1]

\* showtime.save() after releaseSeats: nothing is sent when nothing was modified;
\* otherwise the update is conditional on the loaded version key
ReleaseModified(loaded, local) ==
  \/ local.reservedSeats # loaded.reservedSeats
  \/ ModifiedFlags(loaded, local) # {}

ReleaseConflict(stored, loaded, local) ==
  /\ ReleaseModified(loaded, local)
  /\ stored.version # loaded.version

SaveReleased(stored, loaded, local) ==
  IF ~ReleaseModified(loaded, local) THEN stored
  ELSE [stored EXCEPT
     !.availableSeats = [i \in DOMAIN @ |->
        IF i \in ModifiedFlags(loaded, local)
        THEN [@[i] EXCEPT !.isAvailable = local.availableSeats[i].isAvailable]
        ELSE @[i]],
     !.reservedSeats = IF local.reservedSeats # loaded.reservedSeats
                       THEN local.reservedSeats ELSE @,
     !.version = IF local.reservedSeats # loaded.reservedSeats THEN @ + 1 ELSE @]

\* ---------------------------------------------------------- Reservation
\* reservationSchema.virtual('isCancellable'), showtime populated
isCancellable(res, startTime, t) ==
  IF res.status = "cancelled" \/ res.status = "completed" THEN FALSE
  ELSE startTime > t + TwoHours

\* the refund tiers with the 24 hour bound included in the 90% tier
RefundAmountInclusive(totalAmount, startTime, t) ==
  LET hoursUntilShowtime == startTime - t
  IN IF hoursUntilShowtime >= TwentyFourHours THEN (totalAmount * 9) \div 10
     ELSE IF hoursUntilShowtime > TwoHours THEN totalAmount \div 2
     ELSE 0

\* the refund tiers of reservationSchema.methods.cancel
RefundAmount(totalAmount, startTime, t) ==
  LET hoursUntilShowtime == startTime - t
  IN IF hoursUntilShowtime > TwentyFourHours THEN (totalAmount * 9) \div 10
     ELSE IF hoursUntilShowtime > TwoHours THEN totalAmount \div 2
     ELSE 0

\* schema validation of a new reservation: transactionId is required unless
\* the method is cash; then the pre('save') payment amount hook
NewReservationInvalid(res) ==
  \/ (res.paymentDetails.method # "cash" /\ ~res.paymentDetails.transactionId)
  \/ res.paymentDetails.amount # res.totalAmount

\* reservation.save() of a loaded document: the modified paths only
SaveModified(stored, loaded, local) ==
  [f \in DOMAIN stored |-> IF local[f] # loaded[f] THEN local[f] ELSE stored[f]]

\* ------------------------------------------------- createReservation
\* the start time check refusing past screenings only
showtimeUnavailableStrict(doc, t) == doc.startTime < t

\* the start time check of createReservation: past or ongoing screenings
showtimeUnavailable(doc, t) == doc.startTime <= t

\* the availability check looking at the first requested seat only
unavailableSeatsFirstOnly(doc, requestedSeats) ==
  IF FindSeat(doc.availableSeats, Head(requestedSeats), TRUE) = 0
  THEN <<Head(requestedSeats)>> ELSE <<>>

\* the keys of the request for which no available seat is found
RECURSIVE unavailableSeats(_, _)
unavailableSeats(doc, requestedSeats) ==
  IF requestedSeats = <<>> THEN <<>>
  ELSE LET rest == unavailableSeats(doc, Tail(requestedSeats))
       IN IF FindSeat(doc.availableSeats, Head(requestedSeats), TRUE) = 0
          THEN <<Head(requestedSeats)>> \o rest
          ELSE rest

\* the seats of the new reservation with the captured type and price
reservationSeats(doc, requestedSeats) ==
  [k \in DOMAIN requestedSeats |->
     LET i == FindSeat(doc.availableSeats, requestedSeats[k], FALSE)
     IN [row |-> requestedSeats[k].row, number |-> requestedSeats[k].number,
         type |-> doc.availableSeats[i].type, price |-> doc.availableSeats[i].price]]

\* the total as the price of the first seat alone
SumPricesFirstOnly(seats) ==
  IF seats = <<>> THEN 0 ELSE Head(seats).price

\* let totalAmount = 0; totalAmount += availableSeat.price
RECURSIVE SumPrices(_)
SumPrices(seats) ==
  IF seats = <<>> THEN 0 ELSE Head(seats).price + SumPrices(Tail(seats))

\* new Reservation({...}): status takes the schema default
NewReservation(userId, seats, totalAmount, paymentDetails) ==
  [user |-> userId, showtime |-> ShowtimeId, seats |-> seats,
   totalAmount |-> totalAmount,
   paymentDetails |-> [method |-> paymentDetails.method,
                       transactionId |-> paymentDetails.transactionId,
                       amount |-> totalAmount],
   status |-> "pending",
   cancellationReason |-> None, cancelledAt |-> Unset, refundAmount |-> Unset,
   checkInTime |-> Unset]

\* ------------------------------------------------------------- calls
\* a handler that is not running
IdleCall ==
  [pc |-> "idle", op |-> None, actor |-> None, seats |-> <<>>, payment |-> None,
   rid |-> 0, target |-> None, base |-> 0, doc |-> None, res |-> None,
   local |-> None, body |-> None]

\* the last response sent: the handler, the outcome, and the seats that the
\* 'Seats unavailable' message lists
Response(c, result) ==
  [op |-> c.op, result |-> result, seats |-> <<>>, unavailable |-> <<>>]

NoResponse == [op |-> None, result |-> None, seats |-> <<>>, unavailable |-> <<>>]

InFlight(op) == Cardinality({q \in Procs : calls[q].op = op})

\* res.status(...).json(...): the handler ends
Respond(p, result) ==
  /\ calls' = [calls EXCEPT ![p] = IdleCall]
  /\ response' = Response(calls[p], result)

\* the active seats of every theater: one regular and one premium seat
TheaterSeats ==
  << [row |-> "A", number |-> 1, type |-> "regular", isActive |-> TRUE],
     [row |-> "A", number |-> 2, type |-> "premium", isActive |-> TRUE] >>

\* theaterDoc.priceMultiplier, in tenths
priceMultiplier(type) ==
  IF type = "regular" THEN 10 ELSE IF type = "premium" THEN 15 ELSE 20

\* createShowtime: theaterDoc.seats.filter(seat => seat.isActive).map(...)
availableSeatsFrom(theaterSeats, basePrice) ==
  LET active == SelectSeq(theaterSeats, LAMBDA seat : seat.isActive)
  IN [i \in DOMAIN active |->
        [row |-> active[i].row, number |-> active[i].number,
         type |-> active[i].type,
         price |-> (basePrice * priceMultiplier(active[i].type)) \div 10,
         isAvailable |-> TRUE]]

\* createShowtime: the seat inventory generated from the theater
GenerateAvailableSeats(basePrice) == availableSeatsFrom(TheaterSeats, basePrice)

\* new Showtime({...}) as createShowtime builds it
NewShowtime(theater, startTime, endTime, basePrice) ==
  [theater |-> theater, startTime |-> startTime, endTime |-> endTime,
   basePrice |-> basePrice, isActive |-> TRUE,
   availableSeats |-> GenerateAvailableSeats(basePrice),
   reservedSeats |-> <<>>,
   version |-> 0]

\* the screening that is booked: theater t1, two hours long, base price 1000
InitialShowtime == NewShowtime("t1", StartTime, StartTime + TwoHours, BasePrice)

Init ==
  /\ now = FirstInstant
  /\ showtime = InitialShowtime
  /\ schedule = <<>>
  /\ reservations = <<>>
  /\ calls = [p \in Procs |-> IdleCall]
  /\ response = NoResponse

\* the clock advances
TickTo(T) ==
  /\ \E t \in T : t > now /\ now' = t
  /\ UNCHANGED <<showtime, schedule, reservations, calls, response>>

\* createReservation: Showtime.findById resolves
BookLoad(p, seats, paymentDetails) ==
  /\ calls[p].pc = "idle"
  /\ Len(reservations) + InFlight("book") < MaxReservations
  /\ showtime.version + InFlight("book") + InFlight("cancel") < MaxVersion
  /\ calls' = [calls EXCEPT ![p] =
        [IdleCall EXCEPT !.pc = "book_loaded", !.op = "book", !.actor = Session(p),
                         !.seats = seats, !.payment = paymentDetails,
                         !.base = Len(reservations), !.doc = showtime]]
  /\ UNCHANGED <<schedule, now, showtime, reservations, response>>

\* createReservation: the checks, the new Reservation, reserveSeats and
\* showtimeDoc.save()
BookReserve(p) ==
  LET c == calls[p]
      doc == c.doc
      unavailable == unavailableSeats(doc, c.seats)
      seats == reservationSeats(doc, c.seats)
      reservation == NewReservation(c.actor, seats, SumPrices(seats), c.payment)
      r == reserveSeats(doc, c.seats, c.actor)
  IN /\ c.pc = "book_loaded"
     /\ IF ~doc.isActive
        THEN Respond(p, "invalid_showtime") /\ UNCHANGED showtime
        ELSE IF showtimeUnavailable(doc, now)
        THEN Respond(p, "showtime_unavailable") /\ UNCHANGED showtime
        ELSE IF unavailable # <<>>
        THEN /\ calls' = [calls EXCEPT ![p] = IdleCall]
             /\ response' = [Response(c, "seats_unavailable") EXCEPT
                                !.seats = c.seats, !.unavailable = unavailable]
             /\ UNCHANGED showtime
        ELSE IF r.threw
        THEN Respond(p, "seat_reservation_failed") /\ UNCHANGED showtime
        ELSE /\ showtime' = SaveReserved(showtime, doc, r.doc, r.reserved)
             /\ calls' = [calls EXCEPT ![p] =
                   [c EXCEPT !.pc = "book_reserved", !.doc = None, !.res = reservation]]
             /\ UNCHANGED response
     /\ UNCHANGED <<schedule, now, reservations>>

\* createReservation: reservation.save() and the response
BookSaveReservation(p) ==
  LET c == calls[p]
  IN /\ c.pc = "book_reserved"
     /\ IF NewReservationInvalid(c.res)
        THEN Respond(p, "seat_reservation_failed") /\ UNCHANGED reservations
        ELSE /\ reservations' = Append(reservations, c.res)
             /\ calls' = [calls EXCEPT ![p] = IdleCall]
             /\ response' = Response(c, "created")
     /\ UNCHANGED <<schedule, now, showtime>>

\* ------------------------------------------------- cancelReservation
\* the access test letting every authenticated user through
accessDeniedNobody(actor, res) == Role(actor) # "admin" /\ actor \notin Users

\* requireReservationAccess and the test of cancelReservation: neither an
\* administrator nor the user of the reservation
accessDenied(actor, res) == Role(actor) # "admin" /\ res.user # actor

\* requireReservationAccess, then Reservation.findById(id).populate('showtime')
CancelLoad(p, actor, id) ==
  /\ calls[p].pc = "idle"
  /\ showtime.version + InFlight("book") + InFlight("cancel") < MaxVersion
  /\ LET c == [IdleCall EXCEPT !.op = "cancel", !.actor = actor, !.rid = id]
     IN IF id \notin DOMAIN reservations
        THEN /\ response' = Response(c, "not_found")
             /\ UNCHANGED calls
        ELSE IF accessDenied(actor, reservations[id])
        THEN /\ response' = Response(c, "access_denied")
             /\ UNCHANGED calls
        ELSE /\ calls' = [calls EXCEPT ![p] =
                   [c EXCEPT !.pc = "cancel_loaded", !.res = reservations[id],
                             !.doc = showtime]]
             /\ UNCHANGED response
  /\ UNCHANGED <<schedule, now, showtime, reservations>>

\* authenticateToken on PUT /:id/cancel: the request of actor for reservation
\* id is received and req.user is set
CancelRequest(p, actor, id) ==
  /\ calls[p].pc = "idle"
  /\ showtime.version + InFlight("book") + InFlight("cancel") < MaxVersion
  /\ calls' = [calls EXCEPT ![p] =
        [IdleCall EXCEPT !.pc = "cancel_requested", !.op = "cancel",
                         !.actor = actor, !.rid = id]]
  /\ UNCHANGED <<schedule, now, showtime, reservations, response>>

\* requireReservationAccess for the received request: Reservation.findById,
\* the role and owner test, next()
CancelAccess(p) ==
  LET c == calls[p]
  IN /\ c.pc = "cancel_requested"
     /\ IF Role(c.actor) # "admin" /\ c.rid \notin DOMAIN reservations
        THEN Respond(p, "not_found")
        ELSE IF c.rid \in DOMAIN reservations
                /\ accessDenied(c.actor, reservations[c.rid])
        THEN Respond(p, "access_denied")
        ELSE /\ calls' = [calls EXCEPT ![p] = [c EXCEPT !.pc = "cancel_authorized"]]
             /\ UNCHANGED response
     /\ UNCHANGED <<schedule, now, showtime, reservations>>

\* cancelReservation after the middleware:
\* Reservation.findById(id).populate('showtime')
CancelFind(p) ==
  LET c == calls[p]
  IN /\ c.pc = "cancel_authorized"
     /\ IF c.rid \notin DOMAIN reservations
        THEN Respond(p, "not_found")
        ELSE /\ calls' = [calls EXCEPT ![p] =
                   [c EXCEPT !.pc = "cancel_loaded", !.res = reservations[c.rid],
                             !.doc = showtime]]
             /\ UNCHANGED response
     /\ UNCHANGED <<schedule, now, showtime, reservations>>

\* cancelReservation: the access check and the isCancellable check
CancelCheck(p) ==
  LET c == calls[p]
  IN /\ c.pc = "cancel_loaded"
     /\ IF accessDenied(c.actor, c.res)
        THEN Respond(p, "access_denied")
        ELSE IF ~isCancellable(c.res, c.doc.startTime, now)
        THEN Respond(p, "cannot_cancel")
        ELSE /\ calls' = [calls EXCEPT ![p] = [c EXCEPT !.pc = "cancel_checked"]]
             /\ UNCHANGED response
     /\ UNCHANGED <<schedule, now, showtime, reservations>>

\* reservation.cancel(reason) up to the cancellation time stamp
CancelMark(p) ==
  LET c == calls[p]
  IN /\ c.pc = "cancel_checked"
     /\ IF ~isCancellable(c.res, c.doc.startTime, now)
        THEN Respond(p, "cancel_failed")
        ELSE /\ calls' = [calls EXCEPT ![p] =
                   [c EXCEPT !.pc = "cancel_marked",
                             !.local = [c.res EXCEPT !.status = "cancelled",
                                                     !.cancellationReason = "reason",
                                                     !.cancelledAt = now]]]
             /\ UNCHANGED response
     /\ UNCHANGED <<schedule, now, showtime, reservations>>

\* reservation.cancel(reason): the refund; then reservation.save()
CancelSave(p) ==
  LET c == calls[p]
      local == [c.local EXCEPT !.refundAmount =
                  RefundAmount(c.local.totalAmount, c.doc.startTime, now)]
  IN /\ c.pc = "cancel_marked"
     /\ reservations' = [reservations EXCEPT ![c.rid] = SaveModified(@, c.res, local)]
     /\ calls' = [calls EXCEPT ![p] =
           [c EXCEPT !.pc = "cancel_saved", !.doc = None, !.local = local]]
     /\ UNCHANGED <<schedule, now, showtime, response>>

\* cancelReservation: Showtime.findById resolves
CancelLoadShowtime(p) ==
  LET c == calls[p]
  IN /\ c.pc = "cancel_saved"
     /\ calls' = [calls EXCEPT ![p] = [c EXCEPT !.pc = "cancel_showtime", !.doc = showtime]]
     /\ UNCHANGED <<schedule, now, showtime, reservations, response>>

\* cancelReservation: releaseSeats, showtime.save() and the response
CancelRelease(p) ==
  LET c == calls[p]
      local == releaseSeats(c.doc, c.local.seats)
  IN /\ c.pc = "cancel_showtime"
     /\ IF ReleaseConflict(showtime, c.doc, local)
        THEN Respond(p, "cancel_failed") /\ UNCHANGED showtime
        ELSE /\ showtime' = SaveReleased(showtime, c.doc, local)
             /\ Respond(p, "cancelled")
     /\ UNCHANGED <<schedule, now, reservations>>

\* ---------------------------------------------- updateReservationStatus
\* the validStatuses check, then Reservation.findById
StatusLoad(p, id, status) ==
  /\ calls[p].pc = "idle"
  /\ LET c == [IdleCall EXCEPT !.op = "status", !.actor = Admin, !.rid = id,
                               !.target = status]
     IN IF status \notin validStatuses
        THEN /\ response' = Response(c, "invalid_status")
             /\ UNCHANGED calls
        ELSE IF id \notin DOMAIN reservations
        THEN /\ response' = Response(c, "not_found")
             /\ UNCHANGED calls
        ELSE /\ calls' = [calls EXCEPT ![p] =
                   [c EXCEPT !.pc = "status_loaded", !.res = reservations[id]]]
             /\ UNCHANGED response
  /\ UNCHANGED <<schedule, now, showtime, reservations>>

\* updateReservationStatus: confirm / complete / markAsNoShow / assignment,
\* reservation.save() and the response
StatusSave(p) ==
  LET c == calls[p]
      local == [c.res EXCEPT !.status = c.target]
  IN /\ c.pc = "status_loaded"
     /\ reservations' = [reservations EXCEPT ![c.rid] = SaveModified(@, c.res, local)]
     /\ Respond(p, "status_updated")
     /\ UNCHANGED <<schedule, now, showtime>>

\* ------------------------------------------------- checkInReservation
\* the checks of checkInReservation with an open window: the two ends refused
checkInOutcomeOpen(status, startTime, t) ==
  LET timeDiff == startTime - t
  IN IF status # "confirmed" THEN "invalid_status"
     ELSE IF timeDiff >= TwoHours THEN "too_early"
     ELSE IF timeDiff <= 0 - ThirtyMinutes THEN "too_late"
     ELSE "checked_in"

\* the checks of checkInReservation in their order: the status, then the
\* time left until the screening starts
checkInOutcome(status, startTime, t) ==
  LET timeDiff == startTime - t
  IN IF status # "confirmed" THEN "invalid_status"
     ELSE IF timeDiff > TwoHours THEN "too_early"
     ELSE IF timeDiff < 0 - ThirtyMinutes THEN "too_late"
     ELSE "checked_in"

\* checkIn also completing the reservation
checkInCompleting(res, t) ==
  [res EXCEPT !.checkInTime = t, !.status = "completed"]

\* reservationSchema.methods.checkIn
checkIn(res, t) == [res EXCEPT !.checkInTime = t]

\* requireReservationAccess, then Reservation.findById(id).populate('showtime')
CheckInLoad(p, actor, id) ==
  /\ calls[p].pc = "idle"
  /\ LET c == [IdleCall EXCEPT !.op = "checkin", !.actor = actor, !.rid = id]
     IN IF id \notin DOMAIN reservations
        THEN /\ response' = Response(c, "not_found")
             /\ UNCHANGED calls
        ELSE IF accessDenied(actor, reservations[id])
        THEN /\ response' = Response(c, "access_denied")
             /\ UNCHANGED calls
        ELSE /\ calls' = [calls EXCEPT ![p] =
                   [c EXCEPT !.pc = "checkin_loaded", !.res = reservations[id],
                             !.doc = showtime]]
             /\ UNCHANGED response
  /\ UNCHANGED <<schedule, now, showtime, reservations>>

\* checkInReservation: the checks, reservation.checkIn(), reservation.save()
\* and the response
CheckInSave(p) ==
  LET c == calls[p]
      outcome == checkInOutcome(c.res.status, c.doc.startTime, now)
      local == checkIn(c.res, now)
  IN /\ c.pc = "checkin_loaded"
     /\ IF outcome # "checked_in"
        THEN UNCHANGED reservations
        ELSE reservations' = [reservations EXCEPT ![c.rid] = SaveModified(@, c.res, local)]
     /\ Respond(p, outcome)
     /\ UNCHANGED <<schedule, now, showtime>>

\* ---------------------------------------------------- showtime controller
\* the Showtime collection: the booked screening first, then the created ones
Showtimes == <<showtime>> \o schedule

\* the reference that reservations hold to the screening with this _id
ShowtimeRef(id) == IF id = 1 THEN ShowtimeId ELSE "other"

\* the theaters that exist and are active
Theaters == {"t1", "t2"}

\* the overlap test with closed windows: touching windows overlap
overlapsClosed(doc, startTime, endTime) ==
  doc.startTime <= endTime /\ doc.endTime >= startTime

\* { startTime: { $lt: endTime }, endTime: { $gt: startTime } }
overlaps(doc, startTime, endTime) ==
  doc.startTime < endTime /\ doc.endTime > startTime

\* the documents matched by the conflict query; exclude is the _id of $ne, 0 if none
conflictingShowtime(all, exclude, theater, startTime, endTime) ==
  {i \in DOMAIN all :
     /\ i # exclude
     /\ all[i].theater = theater
     /\ all[i].isActive
     /\ overlaps(all[i], startTime, endTime)}

\* validateShowtime: the start is not in the past, the end is after the start
validShowtimeBody(body, t) ==
  /\ ~(body.startTime < t)
  /\ ~(body.endTime <= body.startTime)

\* showtimeSchema.pre('save')
showtimePreSaveFails(doc, isNew, t) ==
  \/ doc.endTime <= doc.startTime
  \/ (isNew /\ doc.startTime < t)

\* showtime.save() of a loaded Showtime document: the modified paths only
SaveShowtime(id, loaded, local) ==
  IF id = 1
  THEN /\ showtime' = SaveModified(showtime, loaded, local)
       /\ UNCHANGED schedule
  ELSE /\ schedule' = [schedule EXCEPT ![id - 1] = SaveModified(@, loaded, local)]
       /\ UNCHANGED showtime

\* createShowtime: validateShowtime, Movie.findById and Theater.findById
CreateLoad(p, body) ==
  /\ calls[p].pc = "idle"
  /\ Len(schedule) + InFlight("create") < MaxShowtimes
  /\ validShowtimeBody(body, now)
  /\ LET c == [IdleCall EXCEPT !.op = "create", !.actor = Admin, !.body = body]
     IN IF body.theater \notin Theaters
        THEN /\ response' = Response(c, "invalid_theater")
             /\ UNCHANGED calls
        ELSE /\ calls' = [calls EXCEPT ![p] = [c EXCEPT !.pc = "create_loaded"]]
             /\ UNCHANGED response
  /\ UNCHANGED <<schedule, now, showtime, reservations>>

\* createShowtime: the conflict query and the new Showtime
CreateQuery(p) ==
  LET c == calls[p]
      b == c.body
  IN /\ c.pc = "create_loaded"
     /\ IF conflictingShowtime(Showtimes, 0, b.theater, b.startTime, b.endTime) # {}
        THEN Respond(p, "scheduling_conflict")
        ELSE /\ calls' = [calls EXCEPT ![p] =
                   [c EXCEPT !.pc = "create_checked",
                             !.local = NewShowtime(b.theater, b.startTime, b.endTime,
                                                   b.basePrice)]]
             /\ UNCHANGED response
     /\ UNCHANGED <<schedule, now, showtime, reservations>>

\* createShowtime: showtime.save() and the response
CreateSave(p) ==
  LET c == calls[p]
  IN /\ c.pc = "create_checked"
     /\ IF showtimePreSaveFails(c.local, TRUE, now)
        THEN Respond(p, "create_failed") /\ UNCHANGED schedule
        ELSE schedule' = Append(schedule, c.local) /\ Respond(p, "created")
     /\ UNCHANGED <<now, showtime, reservations>>

\* updateShowtime: validateShowtime, then Showtime.findById
UpdateLoad(p, id, body) ==
  /\ calls[p].pc = "idle"
  /\ validShowtimeBody(body, now)
  /\ LET c == [IdleCall EXCEPT !.op = "update", !.actor = Admin, !.rid = id,
                               !.body = body]
     IN IF id \notin DOMAIN Showtimes
        THEN /\ response' = Response(c, "not_found")
             /\ UNCHANGED calls
        ELSE /\ calls' = [calls EXCEPT ![p] =
                   [c EXCEPT !.pc = "update_loaded", !.doc = Showtimes[id]]]
             /\ UNCHANGED response
  /\ UNCHANGED <<schedule, now, showtime, reservations>>

\* updateShowtime: the started and reserved checks, then the conflict query
UpdateQuery(p) ==
  LET c == calls[p]
      b == c.body
  IN /\ c.pc = "update_loaded"
     /\ IF c.doc.startTime < now
        THEN Respond(p, "past_showtime")
        ELSE IF Len(c.doc.reservedSeats) > 0
        THEN Respond(p, "has_reservations")
        ELSE IF conflictingShowtime(Showtimes, c.rid, b.theater, b.startTime,
                                    b.endTime) # {}
        THEN Respond(p, "scheduling_conflict")
        ELSE /\ calls' = [calls EXCEPT ![p] = [c EXCEPT !.pc = "update_checked"]]
             /\ UNCHANGED response
     /\ UNCHANGED <<schedule, now, showtime, reservations>>

\* updateShowtime: Object.assign(showtime, updateData), showtime.save() and
\* the response
UpdateSave(p) ==
  LET c == calls[p]
      local == [c.doc EXCEPT !.theater = c.body.theater,
                             !.startTime = c.body.startTime,
                             !.endTime = c.body.endTime,
                             !.basePrice = c.body.basePrice]
  IN /\ c.pc = "update_checked"
     /\ IF showtimePreSaveFails(local, FALSE, now)
        THEN Respond(p, "update_failed") /\ UNCHANGED <<showtime, schedule>>
        ELSE SaveShowtime(c.rid, c.doc, local) /\ Respond(p, "updated")
     /\ UNCHANGED <<now, reservations>>

\* deleteShowtime: Showtime.findById
DeleteLoad(p, id) ==
  /\ calls[p].pc = "idle"
  /\ LET c == [IdleCall EXCEPT !.op = "delete", !.actor = Admin, !.rid = id]
     IN IF id \notin DOMAIN Showtimes
        THEN /\ response' = Response(c, "not_found")
             /\ UNCHANGED calls
        ELSE /\ calls' = [calls EXCEPT ![p] =
                   [c EXCEPT !.pc = "delete_loaded", !.doc = Showtimes[id]]]
             /\ UNCHANGED response
  /\ UNCHANGED <<schedule, now, showtime, reservations>>

\* the count of the confirmed reservations of the screening only
reservationCountConfirmed(all, ref) ==
  Cardinality({r \in DOMAIN all :
                 all[r].showtime = ref /\ all[r].status = "confirmed"})

\* Reservation.countDocuments({ showtime: id, status: { $in: ['pending',
\* 'confirmed'] } })
reservationCount(all, ref) ==
  Cardinality({r \in DOMAIN all :
                 all[r].showtime = ref /\ all[r].status \in {"pending", "confirmed"}})

\* deleteShowtime: Reservation.countDocuments of the pending and confirmed
\* reservations of the screening
DeleteCount(p) ==
  LET c == calls[p]
  IN /\ c.pc = "delete_loaded"
     /\ IF reservationCount(reservations, ShowtimeRef(c.rid)) > 0
        THEN Respond(p, "has_active_reservations")
        ELSE /\ calls' = [calls EXCEPT ![p] = [c EXCEPT !.pc = "delete_counted"]]
             /\ UNCHANGED response
     /\ UNCHANGED <<schedule, now, showtime, reservations>>

\* deleteShowtime: the soft delete, showtime.save() and the response
DeleteSave(p) ==
  LET c == calls[p]
      local == [c.doc EXCEPT !.isActive = FALSE]
  IN /\ c.pc = "delete_counted"
     /\ SaveShowtime(c.rid, c.doc, local)
     /\ Respond(p, "deleted")
     /\ UNCHANGED <<now, reservations>>

\* ------------------------------------------------ the seats of a theater
\* the bounds of capacity in theaterSchema and validateTheater
CapacityMin == 1
CapacityMax == 1000

Letters ==
  << "A", "B", "C", "D", "E", "F", "G", "H", "I", "J", "K", "L", "M",
     "N", "O", "P", "Q", "R", "S", "T", "U", "V", "W", "X", "Y", "Z" >>

\* String.fromCharCode for the codes generateSeats passes: the capital letter
\* of codes 65..90, and for any other code the character that is named here
\* by its code
fromCharCode(code) ==
  IF code \in 65..90 THEN Letters[code - 64] ELSE "char" \o ToString(code)

\* the seat type chosen in the inner loop of generateSeats
seatType(i, j) ==
  IF i = 0 /\ j >= 4 /\ j <= 7 THEN "vip"
  ELSE IF i < 2 THEN "premium"
  ELSE "regular"

\* generateSeats: for (let j = 1; j <= seatsInThisRow; j++), the seats pushed
\* for row i
seatLoop(i, seatsInThisRow) ==
  [j \in 1..seatsInThisRow |->
     [row |-> fromCharCode(65 + i), number |-> j,
      type |-> seatType(i, j), isActive |-> TRUE]]

\* generateSeats: for (let i = 0; i < rows; i++), the seats pushed from row i on
RECURSIVE rowLoop(_, _, _)
rowLoop(capacity, i, rows) ==
  IF i >= rows THEN <<>>
  ELSE LET seatsPerRow == 10
           rest == capacity - (i * seatsPerRow)
           seatsInThisRow == IF seatsPerRow < rest THEN seatsPerRow ELSE rest
       IN seatLoop(i, seatsInThisRow) \o rowLoop(capacity, i + 1, rows)

\* theaterSchema.methods.generateSeats for an integer capacity
generateSeats(capacity) ==
  LET seatsPerRow == 10
      rows == (capacity + seatsPerRow - 1) \div seatsPerRow
  IN rowLoop(capacity, 0, rows)

\* theaterSchema.pre('save') of a theater without seats: the seats are
\* generated from the capacity
ApplyGenerateSeats(capacity) ==
  /\ response = NoResponse
  /\ capacity > 0
  /\ response' = [op |-> "generateSeats", result |-> "generated",
                  seats |-> generateSeats(capacity), unavailable |-> <<>>,
                  value |-> capacity]
  /\ UNCHANGED <<now, showtime, schedule, reservations, calls>>

\* createShowtime: the screening's availableSeats built from the theater's seats
ApplyAvailableSeats ==
  /\ response.op = "generateSeats"
  /\ showtime = InitialShowtime
  /\ showtime' = [showtime EXCEPT
                    !.availableSeats = availableSeatsFrom(response.seats, showtime.basePrice)]
  /\ UNCHANGED <<now, schedule, reservations, calls, response>>

\* ------------------------------------------------------ specification
ReservationIds == 1..(MaxReservations + 1)

Book(p, requests, payments) ==
  \/ \E s \in requests, pay \in payments : BookLoad(p, s, pay)
  \/ BookReserve(p)
  \/ BookSaveReservation(p)

Cancel(p) ==
  \/ \E a \in Actors, id \in ReservationIds : CancelLoad(p, a, id)
  \/ CancelCheck(p)
  \/ CancelMark(p)
  \/ CancelSave(p)
  \/ CancelLoadShowtime(p)
  \/ CancelRelease(p)

SetStatus(p, statuses) ==
  \/ \E id \in ReservationIds, st \in statuses : StatusLoad(p, id, st)
  \/ StatusSave(p)

CheckIn(p) ==
  \/ \E a \in Actors, id \in ReservationIds : CheckInLoad(p, a, id)
  \/ CheckInSave(p)

ShowtimeIds == 1..(MaxShowtimes + 2)

CreateShowtime(p, bodies) ==
  \/ \E b \in bodies : CreateLoad(p, b)
  \/ CreateQuery(p)
  \/ CreateSave(p)

UpdateShowtime(p, ids, bodies) ==
  \/ \E id \in ids, b \in bodies : UpdateLoad(p, id, b)
  \/ UpdateQuery(p)
  \/ UpdateSave(p)

DeleteShowtime(p, ids) ==
  \/ \E id \in ids : DeleteLoad(p, id)
  \/ DeleteCount(p)
  \/ DeleteSave(p)

\* one request at a time, the clock observed around every threshold
Next ==
  \/ TickTo(Instants)
  \/ Book("p1", SeatRequests, PaymentInputs)
  \/ Cancel("p1")
  \/ SetStatus("p1", StatusInputs)

Spec == Init /\ [][Next]_vars

\* two requests at a time, the clock observed before the thresholds and at
\* the start of the screening
RaceInstants == {FirstInstant, StartTime}
RaceRequests == {s \in SeatRequests : \A i, j \in DOMAIN s : i # j => s[i] # s[j]}
RacePayments == {pay \in PaymentInputs : pay.method = "cash"}

NextRace ==
  \/ TickTo(RaceInstants)
  \/ \E p \in Procs : Book(p, RaceRequests, RacePayments) \/ Cancel(p)

SpecRace == Init /\ [][NextRace]_vars

\* the cancellation with the received request as a step of its own
CancelReceived(p) ==
  \/ \E a \in Actors, id \in ReservationIds : CancelRequest(p, a, id)
  \/ CancelAccess(p)
  \/ CancelFind(p)
  \/ CancelCheck(p)
  \/ CancelMark(p)
  \/ CancelSave(p)
  \/ CancelLoadShowtime(p)
  \/ CancelRelease(p)

NextAccess ==
  \/ TickTo(RaceInstants)
  \/ \E p \in Procs : Book(p, RaceRequests, RacePayments) \/ CancelReceived(p)

SpecAccess == Init /\ [][NextAccess]_vars

\* the same with the administrator confirming reservations
RaceStatuses == {"confirmed"}

NextRaceAdmin ==
  \/ TickTo(RaceInstants)
  \/ \E p \in Procs : \/ Book(p, RaceRequests, RacePayments)
                      \/ Cancel(p)
                      \/ SetStatus(p, RaceStatuses)

SpecRaceAdmin == Init /\ [][NextRaceAdmin]_vars

\* one request at a time: bookings of one seat, administrative status changes
\* and check-ins, the clock observed around every threshold
CheckInRequests == {s \in SeatRequests : Len(s) = 1}

NextCheckIn ==
  \/ TickTo(Instants)
  \/ Book("p1", CheckInRequests, RacePayments)
  \/ SetStatus("p1", validStatuses)
  \/ CheckIn("p1")

SpecCheckIn == Init /\ [][NextCheckIn]_vars

\* request bodies accepted by validateShowtime: windows of two hours that end
\* when the booked screening starts, coincide with it, start in the middle of
\* it, and start when it ends; an existing theater, or one that does not exist
ShowtimeBody(theater, startTime, basePrice) ==
  [theater |-> theater, startTime |-> startTime, endTime |-> startTime + TwoHours,
   basePrice |-> basePrice]

ScheduleStarts ==
  {StartTime - TwoHours, StartTime, StartTime + 2 * ThirtyMinutes, StartTime + TwoHours}

ScheduleBodies ==
  {ShowtimeBody(th, s, BasePrice) : th \in Theaters, s \in ScheduleStarts}
    \cup {ShowtimeBody("t0", StartTime, BasePrice)}

\* one administrative request at a time on the schedule
NextSchedule ==
  \/ TickTo(RaceInstants)
  \/ CreateShowtime("p1", ScheduleBodies)
  \/ UpdateShowtime("p1", ShowtimeIds, ScheduleBodies)
  \/ DeleteShowtime("p1", ShowtimeIds)

SpecSchedule == Init /\ [][NextSchedule]_vars

\* two administrative requests at a time, for windows in the theater of the
\* booked screening that start in the middle of it and when it ends
RaceBodies ==
  {ShowtimeBody("t1", s, BasePrice) :
     s \in {StartTime + 2 * ThirtyMinutes, StartTime + TwoHours}}

NextScheduleRace ==
  \/ TickTo(RaceInstants)
  \/ \E p \in Procs : \/ CreateShowtime(p, RaceBodies)
                      \/ UpdateShowtime(p, ShowtimeIds, RaceBodies)
                      \/ DeleteShowtime(p, ShowtimeIds)

SpecScheduleRace == Init /\ [][NextScheduleRace]_vars

\* bookings and administrative edits of the booked screening: the clock
\* observed before the thresholds, at the start of the screening and after it
EditInstants == RaceInstants \cup {StartTime + ThirtyMinutes}

\* edits that move the screening to the other theater half an hour later, and
\* that double its base price
EditBodies ==
  { ShowtimeBody("t2", StartTime + ThirtyMinutes, BasePrice),
    ShowtimeBody("t1", StartTime, 2 * BasePrice) }

\* one request at a time
NextEdit ==
  \/ TickTo(EditInstants)
  \/ Book("p1", SeatRequests, RacePayments)
  \/ UpdateShowtime("p1", {1}, EditBodies)
  \/ DeleteShowtime("p1", {1})

SpecEdit == Init /\ [][NextEdit]_vars

\* two requests at a time
NextEditRace ==
  \/ TickTo(EditInstants)
  \/ \E p \in Procs : \/ Book(p, CheckInRequests, RacePayments)
                      \/ UpdateShowtime(p, {1}, EditBodies)
                      \/ DeleteShowtime(p, {1})

SpecEditRace == Init /\ [][NextEditRace]_vars

\* one request at a time: bookings of one seat paid in cash and cancellations,
\* the clock observed around every threshold
NextRefund ==
  \/ TickTo(Instants)
  \/ Book("p1", CheckInRequests, RacePayments)
  \/ Cancel("p1")

SpecRefund == Init /\ [][NextRefund]_vars

\* ------------------------------------------------ Showtime methods alone
\* reserveSeats called on the Showtime document: the document is left as the
\* call mutated it, also when it threw
ApplyReserve(seats, userId) ==
  LET r == reserveSeats(showtime, seats, userId)
  IN /\ showtime' = r.doc
     /\ response' = [op |-> "reserveSeats",
                     result |-> IF r.threw THEN "threw" ELSE "returned",
                     seats |-> seats, unavailable |-> <<>>]
     /\ UNCHANGED <<schedule, now, reservations, calls>>

\* releaseSeats called on the Showtime document
ApplyRelease(seats) ==
  /\ showtime' = releaseSeats(showtime, seats)
  /\ response' = [op |-> "releaseSeats", result |-> "returned",
                  seats |-> seats, unavailable |-> <<>>]
  /\ UNCHANGED <<schedule, now, reservations, calls>>

\* the seat lists the methods are called with: those of the requests, the two
\* seats in the other order, and an unknown seat alone
MethodRequests ==
  SeatRequests \cup { <<Key("A", 2), Key("A", 1)>>, <<Key("B", 1)>> }

\* any sequence of reserveSeats and releaseSeats calls on one document
NextSeats ==
  \/ \E s \in MethodRequests, u \in Actors : ApplyReserve(s, u)
  \/ \E s \in MethodRequests : ApplyRelease(s)

SpecSeats == Init /\ [][NextSeats]_vars

\* the null that getSeatPrice returns; a price p is returned as <<p>>
NullPrice == <<>>

\* showtimeSchema.methods.getSeatPrice
getSeatPrice(doc, row, number) ==
  LET i == FindSeat(doc.availableSeats, Key(row, number), FALSE)
  IN IF i = 0 THEN NullPrice ELSE <<doc.availableSeats[i].price>>

\* showtimeSchema.methods.calculateTotalPrice: seats.reduce from 0, a null
\* price counted as 0
RECURSIVE calculateTotalPrice(_, _)
calculateTotalPrice(doc, seats) ==
  IF seats = <<>> THEN 0
  ELSE LET last == seats[Len(seats)]
           price == getSeatPrice(doc, last.row, last.number)
       IN calculateTotalPrice(doc, SubSeq(seats, 1, Len(seats) - 1))
            + (IF price = NullPrice THEN 0 ELSE price[1])

\* getSeatPrice called on the Showtime document
ApplyGetSeatPrice(key) ==
  LET price == getSeatPrice(showtime, key.row, key.number)
  IN /\ response' = [op |-> "getSeatPrice",
                     result |-> IF price = NullPrice THEN "null" ELSE "price",
                     seats |-> <<key>>, unavailable |-> <<>>, value |-> price]
     /\ UNCHANGED <<schedule, now, showtime, reservations, calls>>

\* calculateTotalPrice called on the Showtime document
ApplyCalculateTotalPrice(seats) ==
  /\ response' = [op |-> "calculateTotalPrice", result |-> "total",
                  seats |-> seats, unavailable |-> <<>>,
                  value |-> <<calculateTotalPrice(showtime, seats)>>]
  /\ UNCHANGED <<schedule, now, showtime, reservations, calls>>

\* any sequence of calls of the four methods on one document
NextPrice ==
  \/ \E s \in MethodRequests, u \in Users : ApplyReserve(s, u)
  \/ \E s \in MethodRequests : ApplyRelease(s)
  \/ \E s \in MethodRequests : ApplyGetSeatPrice(Head(s))
  \/ \E s \in MethodRequests : ApplyCalculateTotalPrice(s)

SpecPrice == Init /\ [][NextPrice]_vars

\* one request at a time: bookings, administrative cancellations and
\* confirmations, and deletions of the booked screening and of unknown ones
DeleteStatuses == {"confirmed", "cancelled"}

NextDelete ==
  \/ TickTo(EditInstants)
  \/ Book("p1", SeatRequests, RacePayments)
  \/ SetStatus("p1", DeleteStatuses)
  \/ DeleteShowtime("p1", ShowtimeIds)

SpecDelete == Init /\ [][NextDelete]_vars

\* ------------------------------------------------ the seats of a theater
\* a theater of every capacity is saved and a screening is built from it
NextTheater ==
  \/ \E capacity \in CapacityMin..CapacityMax : ApplyGenerateSeats(capacity)
  \/ ApplyAvailableSeats

SpecTheater == Init /\ [][NextTheater]_vars

\* ------------------------------------------------------------ properties
SameSeat(a, b) == a.row = b.row /\ a.number = b.number

\* the two seat lists name a common seat
Intersect(s, t) == \E i \in DOMAIN s, j \in DOMAIN t : SameSeat(s[i], t[j])

\* the handler of p sends its response in this step
Ends(p) == calls[p].pc # "idle" /\ calls'[p].pc = "idle"

\* the handler of p stores a new reservation in this step
Creates(p) ==
  /\ calls[p].op = "book"
  /\ Ends(p)
  /\ Len(reservations') = Len(reservations) + 1

Quiescent == \A p \in Procs : calls[p].pc = "idle"

\* C1: of two createReservation calls on the screening that run concurrently
\* and request intersecting seat sets, at most one stores a reservation: when a
\* call succeeds, no reservation stored since the call loaded the screening
\* (that is, by a call running concurrently with it) names one of its seats.
C1_AtMostOneSucceeds ==
  [][\A p \in Procs :
       Creates(p) =>
         \A i \in (calls[p].base + 1)..Len(reservations) :
           ~Intersect(reservations[i].seats, calls[p].seats)]_vars

\* a seat of the request that is not in the document or not available in it
BadSeats(doc, seats) ==
  SelectSeq(seats, LAMBDA k :
    ~\E i \in DOMAIN doc.availableSeats :
       SameSeat(doc.availableSeats[i], k) /\ doc.availableSeats[i].isAvailable)

\* C2: a booking that requests a seat which does not exist in the screening or
\* is unavailable in it (as the call loaded it) fails, naming those seats when
\* the screening is bookable at all, and the step in which it fails, like the
\* load before it, changes no seat flag, no claim record and no reservation.
C2_AllOrNothing ==
  [][\A p \in Procs :
       (/\ calls[p].pc = "book_loaded"
        /\ calls'[p].pc # calls[p].pc
        /\ BadSeats(calls[p].doc, calls[p].seats) # <<>>)
       => /\ Ends(p)
          /\ showtime' = showtime
          /\ reservations' = reservations
          /\ IF calls[p].doc.isActive /\ calls[p].doc.startTime > now
             THEN /\ response'.result = "seats_unavailable"
                  /\ response'.unavailable = BadSeats(calls[p].doc, calls[p].seats)
             ELSE response'.result \in {"invalid_showtime", "showtime_unavailable"}]_vars

\* a booking of a known seat followed by an unknown one has been refused
C2_Witness ==
  /\ response.result = "seats_unavailable"
  /\ response.seats = <<Key("A", 1), Key("B", 1)>>
  /\ response.unavailable = <<Key("B", 1)>>


\* the reservation names the seat
Holds(res, seat) == \E k \in DOMAIN res.seats : SameSeat(res.seats[k], seat)

Live(res) == res.status \in {"pending", "confirmed"}

\* C3: once a booking call has finished, no seat is claimed (marked
\* unavailable) without a stored reservation that names it: a failed
\* reservation save is followed by the release of the seats.
C3_NoClaimWithoutReservation ==
  Quiescent =>
    \A i \in DOMAIN showtime.availableSeats :
      ~showtime.availableSeats[i].isAvailable =>
        \E r \in DOMAIN reservations : Holds(reservations[r], showtime.availableSeats[i])

\* C4: a cancelReservation call on a confirmed reservation that has passed the
\* cancellability checks ends with the reservation cancelled and all its seats
\* available; a cancelReservation call on a cancelled reservation is rejected
\* and changes neither the reservation nor the seat inventory.
C4_CancelReleasesSeats ==
  [][\A p \in Procs :
       /\ (/\ calls[p].op = "cancel"
           /\ calls[p].pc \notin {"cancel_loaded", "cancel_checked"}
           /\ calls[p].res.status = "confirmed"
           /\ Ends(p))
          => /\ response'.result = "cancelled"
             /\ reservations'[calls[p].rid].status = "cancelled"
             /\ \A k \in DOMAIN calls[p].res.seats :
                  \E i \in DOMAIN showtime'.availableSeats :
                    /\ SameSeat(showtime'.availableSeats[i], calls[p].res.seats[k])
                    /\ showtime'.availableSeats[i].isAvailable
       /\ (/\ calls[p].op = "cancel"
           /\ calls[p].pc = "cancel_loaded"
           /\ calls[p].res.status = "cancelled"
           /\ calls'[p].pc # calls[p].pc)
          => /\ Ends(p)
             /\ response'.result = "cannot_cancel"
             /\ showtime' = showtime
             /\ reservations' = reservations]_vars

AllowedTransitions ==
  { <<"pending", "confirmed">>, <<"confirmed", "cancelled">>,
    <<"confirmed", "completed">>, <<"confirmed", "no_show">> }

\* C5: the status of a stored reservation changes only along pending ->
\* confirmed, confirmed -> cancelled, confirmed -> completed and confirmed ->
\* no_show; in particular never from cancelled, completed or no_show.
C5_OnlyListedTransitions ==
  [][\A i \in DOMAIN reservations :
       reservations'[i].status # reservations[i].status
         => <<reservations[i].status, reservations'[i].status>> \in AllowedTransitions]_vars

\* C6: once the operations have finished, every claim record of the screening
\* is for a seat of a pending or confirmed reservation.
C6_ClaimOnlyWhileLive ==
  Quiescent =>
    \A c \in DOMAIN showtime.reservedSeats :
      \E r \in DOMAIN reservations :
        Live(reservations[r]) /\ Holds(reservations[r], showtime.reservedSeats[c])

\* C7: a reservation is stored only by a booking whose seat claims are saved,
\* and once the operations have finished every saved claim record has a
\* stored reservation of the claiming user that names the seat.
C7_ReservationIffClaimed ==
  [][/\ \A p \in Procs :
          Creates(p) =>
            \A k \in DOMAIN calls[p].seats :
              \E c \in DOMAIN showtime.reservedSeats :
                /\ SameSeat(showtime.reservedSeats[c], calls[p].seats[k])
                /\ showtime.reservedSeats[c].reservedBy = calls[p].actor
     /\ Quiescent' =>
          \A c \in DOMAIN showtime'.reservedSeats :
            \E r \in DOMAIN reservations' :
              /\ reservations'[r].user = showtime'.reservedSeats[c].reservedBy
              /\ Holds(reservations'[r], showtime'.reservedSeats[c])]_vars

\* C8: the reservation stored by a successful booking is confirmed when the
\* call returns, and all of its seats are unavailable in the screening.
C8_CreatedConfirmed ==
  [][\A p \in Procs :
       Creates(p) =>
         LET res == reservations'[Len(reservations')]
         IN /\ res.status = "confirmed"
            /\ \A k \in DOMAIN res.seats :
                 \E i \in DOMAIN showtime'.availableSeats :
                   /\ SameSeat(showtime'.availableSeats[i], res.seats[k])
                   /\ ~showtime'.availableSeats[i].isAvailable]_vars

\* hours in the unit of the clock
Hours(h) == 2 * h

\* C9: whenever a refund is recorded, it is 90% of the reservation's total if
\* more than 24 hours remain until the screening starts, 50% if more than 2 and
\* at most 24 hours remain, and 0 if 2 hours or less remain.
C9_RefundTiers ==
  [][\A i \in DOMAIN reservations :
       reservations'[i].refundAmount # reservations[i].refundAmount =>
         LET remaining == showtime.startTime - now
             total == reservations[i].totalAmount
         IN reservations'[i].refundAmount =
              IF remaining > Hours(24) THEN (90 * total) \div 100
              ELSE IF remaining > Hours(2) THEN (50 * total) \div 100
              ELSE 0]_vars

\* a cancellation exactly 24 hours before the start has recorded the 50% refund
C9_Witness ==
  \E i \in DOMAIN reservations :
    /\ reservations[i].status = "cancelled"
    /\ reservations[i].cancelledAt = StartTime - Hours(24)
    /\ reservations[i].refundAmount = reservations[i].totalAmount \div 2
    /\ reservations[i].totalAmount > 0
    /\ response.op = "cancel" /\ response.result = "cancelled"

\* C10: cancelReservation on a reservation whose status is cancelled, completed
\* or no_show, or whose screening starts 2 hours from now or sooner, is
\* rejected and changes neither the reservation nor the seat inventory.
C10_CancelRejected ==
  [][\A p \in Procs :
       (/\ calls[p].op = "cancel"
        /\ calls[p].pc = "cancel_loaded"
        /\ calls'[p].pc # calls[p].pc
        /\ \/ calls[p].res.status \in {"cancelled", "completed", "no_show"}
           \/ calls[p].doc.startTime - now <= Hours(2))
       => /\ Ends(p)
          /\ response'.result = "cannot_cancel"
          /\ showtime' = showtime
          /\ reservations' = reservations]_vars

\* now lies in the closed window from 2 hours before the start of the
\* screening to 30 minutes after it
InCheckInWindow(startTime, t) ==
  /\ startTime - Hours(2) <= t
  /\ 2 * t <= 2 * startTime + Hours(1)

\* the handler of p runs its checks in this step
ChecksIn(p) ==
  /\ calls[p].op = "checkin"
  /\ calls[p].pc = "checkin_loaded"
  /\ calls'[p].pc # calls[p].pc

\* C11: a checkInReservation call succeeds, recording the check-in time, if
\* and only if the reservation is confirmed and now lies in the closed window
\* from 2 hours before the start of the screening to 30 minutes after it.
C11_CheckInIff ==
  [][\A p \in Procs :
       ChecksIn(p) =>
         /\ Ends(p)
         /\ response'.result = "checked_in"
              <=> /\ reservations[calls[p].rid].status = "confirmed"
                  /\ InCheckInWindow(showtime.startTime, now)
         /\ response'.result = "checked_in"
              => reservations'[calls[p].rid].checkInTime = now
         /\ response'.result # "checked_in" => reservations' = reservations]_vars

\* a check-in exactly 30 minutes after the start has succeeded, and one exactly
\* 2 hours before it
C11_Witness ==
  /\ response.op = "checkin" /\ response.result = "checked_in"
  /\ Len(reservations) = 2
  /\ reservations[1].checkInTime = StartTime - Hours(2)
  /\ 2 * reservations[2].checkInTime = 2 * StartTime + Hours(1)

\* C12: a checkInReservation call made outside the check-in window fails with
\* the too early / too late error whatever the status of the reservation.
C12_WindowErrorFirst ==
  [][\A p \in Procs :
       (ChecksIn(p) /\ ~InCheckInWindow(showtime.startTime, now))
         => response'.result \in {"too_early", "too_late"}]_vars

\* the half-open windows [s1, e1) and [s2, e2) have an instant in common
WindowsOverlap(s1, e1, s2, e2) == s1 < e2 /\ s2 < e1

\* C13: the conflict check of createShowtime for theater T and window [s, e)
\* fails with the scheduling conflict if and only if some active screening of T
\* has a window [s2, e2) with s < e2 and s2 < e; touching windows, inactive
\* screenings and screenings of other theaters cause no conflict.
C13_ConflictIff ==
  [][\A p \in Procs :
       (/\ calls[p].op = "create"
        /\ calls[p].pc = "create_loaded"
        /\ calls'[p].pc # calls[p].pc)
       => LET b == calls[p].body
              conflict ==
                \E i \in DOMAIN Showtimes :
                  /\ Showtimes[i].isActive
                  /\ Showtimes[i].theater = b.theater
                  /\ WindowsOverlap(b.startTime, b.endTime,
                                    Showtimes[i].startTime, Showtimes[i].endTime)
          IN /\ Ends(p) <=> conflict
             /\ Ends(p) => response'.result = "scheduling_conflict"
             /\ showtime' = showtime /\ schedule' = schedule]_vars

\* a screening has been created in the theater of the booked screening with a
\* window that ends when that screening starts
C13_Witness ==
  /\ response.op = "create" /\ response.result = "created"
  /\ Len(schedule) = 1
  /\ showtime.isActive /\ showtime.theater = "t1"
  /\ schedule[1].isActive /\ schedule[1].theater = "t1"
  /\ schedule[1].endTime = showtime.startTime

\* C14: no two active screenings of the same theater have overlapping windows.
C14_NoOverlap ==
  \A i, j \in DOMAIN Showtimes :
    (/\ i # j
     /\ Showtimes[i].isActive /\ Showtimes[j].isActive
     /\ Showtimes[i].theater = Showtimes[j].theater)
    => ~WindowsOverlap(Showtimes[i].startTime, Showtimes[i].endTime,
                       Showtimes[j].startTime, Showtimes[j].endTime)

\* the fields of a screening that an edit may change: the theater, the window,
\* the base price and the keys, classes and prices of the seat inventory
Fields(doc) ==
  [theater |-> doc.theater, startTime |-> doc.startTime, endTime |-> doc.endTime,
   basePrice |-> doc.basePrice,
   seats |-> [i \in DOMAIN doc.availableSeats |->
                [row |-> doc.availableSeats[i].row,
                 number |-> doc.availableSeats[i].number,
                 type |-> doc.availableSeats[i].type,
                 price |-> doc.availableSeats[i].price]]]

\* C15: an updateShowtime call on a screening that has started or has a claim
\* record is rejected by its checks and leaves the screening unchanged, and no
\* step changes the theater, the window, the base price or the seat inventory
\* of a screening while a claim record exists for it.
C15_NoEditWhileClaimed ==
  [][/\ \A p \in Procs :
          (/\ calls[p].op = "update"
           /\ calls[p].pc = "update_loaded"
           /\ calls'[p].pc # calls[p].pc
           /\ \/ showtime.startTime < now
              \/ showtime.reservedSeats # <<>>)
          => /\ Ends(p)
             /\ response'.result \in {"past_showtime", "has_reservations"}
             /\ showtime' = showtime
     /\ showtime.reservedSeats # <<>> => Fields(showtime') = Fields(showtime)]_vars

\* C16: a createReservation call on a screening that is inactive, or whose
\* start time is not strictly in the future, fails with the invalid showtime /
\* showtime unavailable error, names no seat, and changes neither the seat
\* inventory nor the reservations.
C16_ScreeningUnavailable ==
  [][\A p \in Procs :
       (/\ calls[p].op = "book"
        /\ calls[p].pc = "book_loaded"
        /\ calls'[p].pc # calls[p].pc
        /\ (~showtime.isActive \/ ~(showtime.startTime > now)))
       => /\ Ends(p)
          /\ response'.result \in {"invalid_showtime", "showtime_unavailable"}
          /\ response'.unavailable = <<>>
          /\ showtime' = showtime
          /\ reservations' = reservations]_vars

\* a booking has been refused because the screening starts at this instant
C16_Witness ==
  /\ response.op = "book" /\ response.result = "showtime_unavailable"
  /\ showtime.isActive /\ showtime.startTime = now
  /\ Quiescent

\* the sum of the captured prices of the first k seats
RECURSIVE CapturedSum(_, _)
CapturedSum(seats, k) ==
  IF k = 0 THEN 0 ELSE seats[k].price + CapturedSum(seats, k - 1)

\* C17: for every stored reservation, the sum of the captured prices of its
\* seats equals its total amount, which equals its payment amount.
C17_TotalsAgree ==
  \A r \in DOMAIN reservations :
    /\ CapturedSum(reservations[r].seats, Len(reservations[r].seats))
         = reservations[r].totalAmount
    /\ reservations[r].paymentDetails.amount = reservations[r].totalAmount

\* a reservation of the regular and the premium seat is stored
C17_Witness ==
  \E r \in DOMAIN reservations :
    /\ Len(reservations[r].seats) = 2
    /\ reservations[r].seats[1].price # reservations[r].seats[2].price
    /\ reservations[r].totalAmount = 2500

\* the seat keys of a seat inventory
KeysOf(availableSeats) ==
  {Key(availableSeats[i].row, availableSeats[i].number) : i \in DOMAIN availableSeats}

\* C18: after any sequence of reserveSeats and releaseSeats calls, returning
\* or throwing, the seat inventory has the seat keys it was created with, one
\* seat record for each.
C18_SeatKeysFixed ==
  /\ KeysOf(showtime.availableSeats) = KeysOf(InitialShowtime.availableSeats)
  /\ Len(showtime.availableSeats) = Len(InitialShowtime.availableSeats)

\* a reserveSeats call has thrown after marking a seat, and calls of both
\* methods have returned before
C18_Witness ==
  /\ response.op = "reserveSeats" /\ response.result = "threw"
  /\ ~showtime.availableSeats[1].isAvailable
  /\ showtime.reservedSeats # <<>>

\* C19: releaseSeats never fails and is idempotent: on every document that
\* reserveSeats and releaseSeats calls produce, releasing seats that are all
\* available or unknown and have no claim record leaves the document as it is,
\* and releasing the same seats a second time changes nothing more.
C19_ReleaseIdempotent ==
  \A s \in MethodRequests :
    LET once == releaseSeats(showtime, s)
        free(k) ==
          /\ \A i \in DOMAIN showtime.availableSeats :
               SameSeat(showtime.availableSeats[i], k)
                 => showtime.availableSeats[i].isAvailable
          /\ \A c \in DOMAIN showtime.reservedSeats :
               ~SameSeat(showtime.reservedSeats[c], k)
    IN /\ releaseSeats(once, s) = once
       /\ (\A k \in DOMAIN s : free(s[k])) => once = showtime
       /\ \A k \in DOMAIN s :
            /\ \A i \in DOMAIN once.availableSeats :
                 SameSeat(once.availableSeats[i], s[k])
                   => once.availableSeats[i].isAvailable
            /\ \A c \in DOMAIN once.reservedSeats :
                 ~SameSeat(once.reservedSeats[c], s[k])

\* releaseSeats has been called for a claimed seat together with a key that is
\* not in the inventory, and the document has another claimed seat
C19_Witness ==
  /\ response.op = "releaseSeats"
  /\ response.seats = <<Key("A", 1), Key("B", 1)>>
  /\ showtime.availableSeats[1].isAvailable
  /\ ~showtime.availableSeats[2].isAvailable
  /\ Len(showtime.reservedSeats) = 1

\* C20: in every saved state of the screening, a seat is unavailable if and
\* only if exactly one claim record exists for its key.
C20_FlagIffOneClaim ==
  \A i \in DOMAIN showtime.availableSeats :
    ~showtime.availableSeats[i].isAvailable
      <=> Cardinality({c \in DOMAIN showtime.reservedSeats :
                         SameSeat(showtime.reservedSeats[c],
                                  showtime.availableSeats[i])}) = 1

\* the key is not in the seat inventory of the document
UnknownSeat(doc, key) ==
  \A i \in DOMAIN doc.availableSeats : ~SameSeat(doc.availableSeats[i], key)

\* C21: a price lookup for a seat key that is not in the screening fails with
\* the seat-not-found error: getSeatPrice returns no value for it, and
\* calculateTotalPrice returns no total for a list that names such a key.
C21_UnknownSeatFails ==
  (/\ response.op \in {"getSeatPrice", "calculateTotalPrice"}
   /\ \E k \in DOMAIN response.seats : UnknownSeat(showtime, response.seats[k]))
  => response.result = "seat_not_found"

\* C22: no screening record is ever removed; a deleteShowtime call is refused
\* with no change while a pending or confirmed reservation exists for the
\* screening, and one that succeeds only clears the active flag: the window,
\* the seat inventory and the claim records stay as they are.
C22_SoftDeleteOnly ==
  [][/\ Len(schedule') >= Len(schedule)
     /\ \A p \in Procs :
          /\ (/\ calls[p].op = "delete"
              /\ calls[p].pc = "delete_loaded"
              /\ calls'[p].pc # calls[p].pc
              /\ \E r \in DOMAIN reservations :
                   /\ reservations[r].showtime = ShowtimeRef(calls[p].rid)
                   /\ Live(reservations[r]))
             => /\ Ends(p)
                /\ response'.result = "has_active_reservations"
                /\ showtime' = showtime /\ schedule' = schedule
          /\ (calls[p].op = "delete" /\ calls'[p].pc # calls[p].pc)
             => /\ reservations' = reservations
                /\ schedule' = schedule
                /\ IF Ends(p) /\ response'.result = "deleted"
                   THEN showtime' = [showtime EXCEPT !.isActive = FALSE]
                   ELSE showtime' = showtime]_vars

\* the screening has been deleted while it had the claim record of a
\* cancelled reservation, and the record is still there
C22_Witness ==
  /\ response.op = "delete" /\ response.result = "deleted"
  /\ ~showtime.isActive
  /\ showtime.reservedSeats # <<>>
  /\ ~showtime.availableSeats[1].isAvailable

\* C23: a checkInReservation call that succeeds writes the check-in time of
\* the reservation and nothing else: its status, seats and total, the other
\* reservations and the seat inventory of the screening stay as they are; a
\* call that fails changes nothing.
C23_CheckInFrame ==
  [][\A p \in Procs :
       ChecksIn(p) =>
         /\ showtime' = showtime
         /\ IF response'.result = "checked_in"
            THEN reservations' =
                   [reservations EXCEPT ![calls[p].rid].checkInTime = now]
            ELSE reservations' = reservations]_vars

\* a confirmed reservation has just been checked in and is still confirmed,
\* its seat still claimed
C23_Witness ==
  /\ response.op = "checkin" /\ response.result = "checked_in"
  /\ \E r \in DOMAIN reservations :
       /\ reservations[r].checkInTime = now
       /\ reservations[r].status = "confirmed"
       /\ reservations[r].totalAmount > 0
  /\ showtime.reservedSeats # <<>>

\* C24: the status of a reservation becomes completed only when the start of
\* its screening has passed: before the start the change is rejected.
C24_CompletedAfterStart ==
  [][\A i \in DOMAIN reservations :
       (reservations'[i].status = "completed" /\ reservations[i].status # "completed")
         => now >= showtime.startTime]_vars

\* C26: no seat of the screening is named by two different reservations that
\* are both pending or confirmed.
C26_NoSharedSeat ==
  \A r1, r2 \in DOMAIN reservations :
    (r1 # r2 /\ Live(reservations[r1]) /\ Live(reservations[r2]))
      => ~Intersect(reservations[r1].seats, reservations[r2].seats)

\* C25: a cancelReservation request of an actor who is neither the holder of
\* the stored reservation nor an administrator is answered with access denied
\* in the step that follows its receipt, and that step leaves every stored
\* reservation (status, cancellation and refund fields) and the screening's
\* inventory and claim records unchanged.
C25_AccessDenied ==
  [][\A p \in Procs :
       (/\ calls[p].pc = "cancel_requested"
        /\ calls'[p].pc # "cancel_requested"
        /\ calls[p].rid \in DOMAIN reservations
        /\ calls[p].actor # Admin
        /\ reservations[calls[p].rid].user # calls[p].actor)
       => /\ calls'[p].pc = "idle"
          /\ response'.op = "cancel"
          /\ response'.result = "access_denied"
          /\ reservations' = reservations
          /\ showtime' = showtime]_vars

C25_Witness ==
  /\ response.op = "cancel" /\ response.result = "access_denied"
  /\ Len(reservations) = 1
  /\ reservations[1].status = "pending"
  /\ reservations[1].refundAmount = Unset
  /\ showtime.reservedSeats # <<>>
  /\ Quiescent

\* C30: every stored reservation whose status is cancelled has a cancellation
\* time and a refund amount recorded.
C30_CancelledHasRefund ==
  \A r \in DOMAIN reservations :
    reservations[r].status = "cancelled"
      => /\ reservations[r].cancelledAt # Unset
         /\ reservations[r].refundAmount # Unset

\* every seat of a pending or confirmed reservation is unavailable and has a
\* claim record of the reservation's user
LiveSeatsClaimed ==
  \A r \in DOMAIN reservations :
    Live(reservations[r]) =>
      \A k \in DOMAIN reservations[r].seats :
        LET s == reservations[r].seats[k]
        IN /\ \A i \in DOMAIN showtime.availableSeats :
                SameSeat(showtime.availableSeats[i], s)
                  => ~showtime.availableSeats[i].isAvailable
           /\ \E j \in DOMAIN showtime.reservedSeats :
                /\ SameSeat(showtime.reservedSeats[j], s)
                /\ showtime.reservedSeats[j].reservedBy = reservations[r].user

\* no seat stays claimed for a reservation that has been cancelled: every
\* claim record is the claim of a pending or confirmed reservation
ClaimsOfLiveOnly ==
  \A j \in DOMAIN showtime.reservedSeats :
    \E r \in DOMAIN reservations :
      /\ Live(reservations[r])
      /\ reservations[r].user = showtime.reservedSeats[j].reservedBy
      /\ \E k \in DOMAIN reservations[r].seats :
           SameSeat(showtime.reservedSeats[j], reservations[r].seats[k])

\* C27: whenever no operation is in progress, every seat of a pending or
\* confirmed reservation is marked unavailable in the screening and has a claim
\* record bound to the reservation's user, and no seat of a cancelled
\* reservation is left claimed, also when a cancellation interleaved with a
\* booking of other seats.
C27_ClaimsMatchReservations ==
  Quiescent => LiveSeatsClaimed /\ ClaimsOfLiveOnly

\* C28: whenever no operation is in progress, a stored pending or confirmed
\* reservation belongs to an active screening: the screening is not inactive
\* while such a reservation exists, however deleteShowtime and
\* createReservation interleave.
C28_LiveOnActiveScreening ==
  Quiescent =>
    \A r \in DOMAIN reservations :
      Live(reservations[r]) => showtime.isActive

\* the handler of p writes the cancellation of its reservation in this step
WritesCancellation(p) ==
  calls[p].pc = "cancel_marked" /\ calls'[p].pc = "cancel_saved"

\* the handler of p answers in this step that its reservation is cancelled
CancelSucceeds(p) ==
  /\ calls[p].op = "cancel"
  /\ Ends(p)
  /\ response'.result = "cancelled"

\* the last answer given was a successful cancellation
LastCancelled == response.op = "cancel" /\ response.result = "cancelled"

\* C29: the cancellation time, reason and refund amount of a reservation are
\* written once: no cancelReservation call writes them on a reservation that
\* already has them; and of the cancelReservation calls on one reservation at
\* most one succeeds: with a single reservation stored, a call does not
\* succeed right after another one did.
C29_CancelledOnce ==
  [][\A p \in Procs :
       /\ WritesCancellation(p)
            => reservations[calls[p].rid].cancelledAt = Unset
       /\ (CancelSucceeds(p) /\ Len(reservations) = 1) => ~LastCancelled]_vars

\* C31: every cancelReservation call that succeeds leaves a refund of 90% or of
\* 50% of the reservation's total recorded: a refund of 0 is never the outcome
\* of a successful cancellation, whatever time passes inside the call.
C31_RefundNeverZero ==
  [][\A p \in Procs :
       CancelSucceeds(p) =>
         LET res == reservations'[calls[p].rid]
         IN res.refundAmount \in {(90 * res.totalAmount) \div 100,
                                  (50 * res.totalAmount) \div 100}]_vars

\* the seat list names one seat key more than once
NamesSeatTwice(seats) ==
  \E i, j \in DOMAIN seats : i # j /\ SameSeat(seats[i], seats[j])

\* C32: no stored reservation names the same seat key twice, and a
\* createReservation call whose request names a seat more than once is
\* rejected in the step that processes it, which changes no seat flag, no claim
\* record and no reservation in storage.
C32_NoDuplicateSeat ==
  [][/\ \A r \in DOMAIN reservations' : ~NamesSeatTwice(reservations'[r].seats)
     /\ \A p \in Procs :
          (/\ calls[p].pc = "book_loaded"
           /\ calls'[p].pc # "book_loaded"
           /\ NamesSeatTwice(calls[p].seats))
          => /\ calls'[p].pc = "idle"
             /\ response'.op = "book"
             /\ response'.result # "created"
             /\ showtime' = showtime
             /\ reservations' = reservations]_vars

\* a booking has just been refused by reserveSeats, which only a request
\* naming an available seat twice brings about, and nothing is stored
C32_Witness ==
  /\ response.op = "book"
  /\ response.result = "seat_reservation_failed"
  /\ showtime = InitialShowtime
  /\ reservations = <<>>
  /\ Quiescent

\* the seat records have pairwise distinct (row, number) keys
DistinctKeys(seats) ==
  Cardinality({Key(seats[k].row, seats[k].number) : k \in DOMAIN seats}) = Len(seats)

\* every seat record has a single capital letter as row and a number in 1..10
ValidKeys(seats) ==
  \A k \in DOMAIN seats :
    /\ \E l \in DOMAIN Letters : seats[k].row = Letters[l]
    /\ seats[k].number \in 1..10

\* C33: for every capacity from 1 to 1000 the seats generateSeats produces are
\* exactly capacity many, have pairwise distinct (row, number) keys, rows that
\* are single letters A to Z and numbers in 1..10; the screening built from
\* the theater has distinct and valid seat keys as well.
C33_GeneratedSeats ==
  /\ response.op = "generateSeats" =>
       /\ Len(response.seats) = response.value
       /\ DistinctKeys(response.seats)
       /\ ValidKeys(response.seats)
  /\ DistinctKeys(showtime.availableSeats)
  /\ ValidKeys(showtime.availableSeats)

====
